---- MODULE Spec2Model ----
(***************************************************************************)
(* A model of dacite's from_dict engine (src/dacite/core.py,               *)
(* src/dacite/types.py, src/dacite/config.py).                             *)
(*                                                                         *)
(* Declared types are records [k, n, args]:                                *)
(*   k = "class"      a builtin class (int, str, float, NoneType, list...) *)
(*   k = "dataclass"  a data class; n is its name (see get_fields), args   *)
(*                    the resolved type hints of its fields, in order      *)
(*   k = "Any"        typing.Any                                           *)
(*   k = "Union"      typing.Union[args]                                   *)
(*   k = "generic"    a parameterised generic, n its origin class          *)
(*   k = "Ellipsis"   the ... of Tuple[T, ...]                             *)
(*   k = "NoneValue"  the value None used where a type is expected (the    *)
(*                    fill value of zip_longest)                           *)
(* Runtime values are records [cls, n, keys, items]: cls is the value's    *)
(* class, n the payload of a scalar (a string: "1" is the number 1 or the  *)
(* text "1" depending on cls), keys/items the content of a container.      *)
(* Python exceptions are results with ok = FALSE.                          *)
(*                                                                         *)
(* Outside the model: InitVar, Literal, NewType and Type[X] hints,         *)
(* unparameterised generics, data classes with their own from_dict, and    *)
(* the text str() gives for a container (one opaque text, "<repr>").       *)
(* dacite/dataclasses.py, dacite/data.py and dacite/exceptions.py are      *)
(* modelled from their documented behaviour.                               *)
(***************************************************************************)
EXTENDS Integers, Sequences, FiniteSets

\* ------------------------------------------------------------------ types
Ty(k, n, args) == [k |-> k, n |-> n, args |-> args]
Cls(n) == Ty("class", n, <<>>)
Any == Ty("Any", "", <<>>)
Ellipsis == Ty("Ellipsis", "", <<>>)
NoneValue == Ty("NoneValue", "", <<>>)
NoneType == Cls("NoneType")
int == Cls("int")
str == Cls("str")
float == Cls("float")
Union(args) == Ty("Union", "", args)
Optional(t) == Union(<<t, NoneType>>)
List(t) == Ty("generic", "list", <<t>>)
Set(t) == Ty("generic", "set", <<t>>)
Dict(kt, vt) == Ty("generic", "dict", <<kt, vt>>)
Tuple(args) == Ty("generic", "tuple", args)
DataClass(n, hints) == Ty("dataclass", n, hints)

\* ----------------------------------------------------------------- values
Val(cls, n, keys, items) == [cls |-> cls, n |-> n, keys |-> keys, items |-> items]
None == Val(NoneType, "", <<>>, <<>>)
IntV(n) == Val(int, n, <<>>, <<>>)
StrV(n) == Val(str, n, <<>>, <<>>)
FloatV(n) == Val(float, n, <<>>, <<>>)
ListV(items) == Val(Cls("list"), "", <<>>, items)
TupleV(items) == Val(Cls("tuple"), "", <<>>, items)
DictV(keys, items) == Val(Cls("dict"), "", keys, items)

\* the decimal numerals of the model: int("1") succeeds, int("a") does not
Numerals == {"0", "1", "2", "3"}

\* ---------------------------------------------------------------- results
Ok(v) == [ok |-> TRUE, v |-> v, err |-> "", path |-> <<>>, keys |-> {}, types |-> {}]
Raise(err, v) == [ok |-> FALSE, v |-> v, err |-> err, path |-> <<>>, keys |-> {}, types |-> {}]

\* the first exception raised while the results rs are produced in order
FirstRaised(rs) == rs[CHOOSE i \in 1..Len(rs) : ~rs[i].ok /\ \A j \in 1..(i-1) : rs[j].ok]
AllOk(rs) == \A i \in 1..Len(rs) : rs[i].ok
Vals(rs) == [i \in 1..Len(rs) |-> rs[i].v]

\* ------------------------------------------------ builtin Python behaviour
\* hash(v) succeeds: lists, dicts, sets and (eq-comparing) data class instances
\* have no hash, a tuple has one when its items have
RECURSIVE IsHashable(_)
IsHashable(v) ==
  /\ v.cls.k = "class"
  /\ v.cls.n \notin {"list", "dict", "set"}
  /\ \A i \in 1..Len(v.items) : IsHashable(v.items[i])

\* the characters of a text, as iterating a str yields them
Chars(s) ==
  CASE s = "" -> <<>>
    [] s = "ab" -> <<"a", "b">>
    [] s = "f1" -> <<"f", "1">>
    [] s = "f2" -> <<"f", "2">>
    [] s = "f3" -> <<"f", "3">>
    [] s = "f4" -> <<"f", "4">>
    [] s = "1.0" -> <<"1", ".", "0">>
    [] s = "2.0" -> <<"2", ".", "0">>
    [] s = "3.0" -> <<"3", ".", "0">>
    [] s = "0.0" -> <<"0", ".", "0">>
    [] s = "None" -> <<"N", "o", "n", "e">>
    [] s = "<repr>" -> <<"<", "r", "e", "p", "r", ">">>
    [] OTHER -> <<s>>

IsIterable(v) == v.cls.k = "class" /\ v.cls.n \in {"list", "tuple", "set", "dict", "str"}

\* iter(v): the elements a for loop over v visits
Iter(v) ==
  CASE v.cls.n \in {"list", "tuple", "set"} -> v.items
    [] v.cls.n = "dict" -> v.keys
    [] OTHER -> LET cs == Chars(v.n) IN [i \in 1..Len(cs) |-> StrV(cs[i])]

\* a == b as Python compares hashable values: 1 == 1.0, tuples item by item
RECURSIVE PyEq(_, _)
PyEq(a, b) ==
  IF a.cls \in {int, float} /\ b.cls \in {int, float} THEN a.n = b.n
  ELSE IF a.cls = Cls("tuple") /\ b.cls = Cls("tuple")
  THEN Len(a.items) = Len(b.items) /\ \A i \in 1..Len(a.items) : PyEq(a.items[i], b.items[i])
  ELSE a = b

\* the items of set(s): an item equal to an earlier one is dropped
RECURSIVE Dedup(_)
Dedup(s) ==
  IF s = <<>> THEN <<>>
  ELSE LET front == Dedup(SubSeq(s, 1, Len(s) - 1))
           last == s[Len(s)]
       IN IF \E i \in 1..Len(front) : PyEq(front[i], last) THEN front ELSE Append(front, last)

\* dict(pairs): a later pair with an equal key replaces the value of the
\* earlier one and keeps its key and position
RECURSIVE DictOf(_, _)
DictOf(ks, vs) ==
  IF ks = <<>> THEN DictV(<<>>, <<>>)
  ELSE LET d == DictOf(SubSeq(ks, 1, Len(ks) - 1), SubSeq(vs, 1, Len(vs) - 1))
           k == ks[Len(ks)]
           v == vs[Len(vs)]
       IN IF \E i \in 1..Len(d.keys) : PyEq(d.keys[i], k)
          THEN DictV(d.keys, [i \in 1..Len(d.keys) |-> IF PyEq(d.keys[i], k) THEN v ELSE d.items[i]])
          ELSE DictV(Append(d.keys, k), Append(d.items, v))

\* collection_cls(items) for a builtin container class
MakeCollection(cls, items) ==
  CASE cls.n = "set" ->
         IF \A i \in 1..Len(items) : IsHashable(items[i])
         THEN Ok(Val(cls, "", <<>>, Dedup(items)))
         ELSE Raise("TypeError", None)
    [] OTHER -> Ok(Val(cls, "", <<>>, items))

\* collection_cls(generator): rs are the outcomes of producing the items in
\* order. The first exception ends the construction; a set hashes every
\* item as soon as it is produced, before the next one is.
Collect(cls, rs) ==
  LET bad == {i \in 1..Len(rs) : ~rs[i].ok \/ (cls.n = "set" /\ ~IsHashable(rs[i].v))} IN
  IF bad = {} THEN MakeCollection(cls, Vals(rs))
  ELSE LET i == CHOOSE x \in bad : \A y \in bad : x <= y
       IN IF rs[i].ok THEN Raise("TypeError", None) ELSE rs[i]

\* cls(value): calling a builtin class on one argument
Construct(cls, value) ==
  LET c == value.cls.n IN
  CASE cls.n = "int" ->
         IF c \in {"int", "float"} THEN Ok(IntV(value.n))
         ELSE IF c = "str" THEN (IF value.n \in Numerals THEN Ok(IntV(value.n)) ELSE Raise("ValueError", None))
         ELSE Raise("TypeError", None)
    [] cls.n = "float" ->
         IF c \in {"int", "float"} THEN Ok(FloatV(value.n))
         ELSE IF c = "str" THEN (IF value.n \in Numerals THEN Ok(FloatV(value.n)) ELSE Raise("ValueError", None))
         ELSE Raise("TypeError", None)
    [] cls.n = "str" ->
         IF c \in {"int", "str"} THEN Ok(StrV(value.n))
         ELSE IF c = "float" THEN Ok(StrV(CASE value.n = "0" -> "0.0" [] value.n = "1" -> "1.0"
                                            [] value.n = "2" -> "2.0" [] OTHER -> "3.0"))
         ELSE IF c = "NoneType" THEN Ok(StrV("None"))
         ELSE Ok(StrV("<repr>"))
    [] cls.n \in {"list", "tuple", "set"} ->
         IF IsIterable(value) THEN MakeCollection(cls, Iter(value)) ELSE Raise("TypeError", None)
    [] cls.n = "dict" ->
         IF c = "dict" THEN Ok(value)
         ELSE IF ~IsIterable(value) THEN Raise("TypeError", None)
         ELSE LET its == Iter(value)
                  \* element i must be a sequence of a key with a hash and a value
                  Fault(i) == IF ~IsIterable(its[i]) THEN "TypeError"
                              ELSE IF Len(Iter(its[i])) # 2 THEN "ValueError"
                              ELSE IF ~IsHashable(Iter(its[i])[1]) THEN "TypeError"
                              ELSE ""
                  bad == {i \in 1..Len(its) : Fault(i) # ""}
              IN IF bad = {}
                 THEN Ok(DictOf([i \in 1..Len(its) |-> Iter(its[i])[1]], [i \in 1..Len(its) |-> Iter(its[i])[2]]))
                 ELSE Raise(Fault(CHOOSE i \in bad : \A j \in bad : i <= j), None)
    [] OTHER -> Raise("TypeError", None)

\* ------------------------------------------------------- type predicates
is_generic(type_) == type_.k \in {"Union", "generic"}

is_union(type_) == type_.k = "Union"

extract_origin_collection(collection) == Cls(collection.n)

is_generic_collection(type_) == type_.k = "generic" /\ type_.n \in {"list", "dict", "set", "tuple"}

extract_generic(type_, defaults) == IF type_.k \in {"Union", "generic"} /\ type_.args # <<>> THEN type_.args ELSE defaults

is_optional(type_) == is_union(type_) /\ \E i \in 1..Len(type_.args) : type_.args[i] = NoneType

extract_optional(optional) ==
  LET other_members == SelectSeq(extract_generic(optional, <<>>), LAMBDA member : member # NoneType)
  IN IF Len(other_members) = 1 THEN other_members[1] ELSE Union(other_members)

is_tuple(type_) == type_.k = "generic" /\ type_.n = "tuple"

is_set(type_) == type_ = Cls("set") \/ type_ = Cls("frozenset")

is_dataclass(type_) == type_.k = "dataclass"

is_subclass(sub_type, base_type) ==
  LET sub == IF is_generic_collection(sub_type) THEN extract_origin_collection(sub_type) ELSE sub_type
  IN sub.k \in {"class", "dataclass"} /\ base_type.k \in {"class", "dataclass"} /\ sub = base_type

\* isinstance(value, cls) for a class of the model (no class inherits from another)
isinstance(value, cls) == cls.k \in {"class", "dataclass"} /\ value.cls = cls

RECURSIVE is_instance(_, _)
is_instance(value, type_) ==
  IF type_ = Any THEN TRUE
  ELSE IF is_union(type_) THEN \E i \in 1..Len(type_.args) : is_instance(value, type_.args[i])
  ELSE IF is_generic_collection(type_) THEN
    LET origin == extract_origin_collection(type_) IN
    IF ~isinstance(value, origin) THEN FALSE
    ELSE IF isinstance(value, Cls("tuple")) /\ is_tuple(type_) THEN
      LET tuple_types == extract_generic(type_, <<>>) IN
      IF Len(tuple_types) = 2 /\ tuple_types[2] = Ellipsis
      THEN \A i \in 1..Len(value.items) : is_instance(value.items[i], tuple_types[1])
      ELSE IF Len(tuple_types) # Len(value.items) THEN FALSE
      ELSE \A i \in 1..Len(value.items) : is_instance(value.items[i], tuple_types[i])
    ELSE IF isinstance(value, Cls("dict")) THEN
      LET kv == extract_generic(type_, <<Any, Any>>) IN
      \A i \in 1..Len(value.keys) : is_instance(value.keys[i], kv[1]) /\ is_instance(value.items[i], kv[2])
    ELSE \A i \in 1..Len(value.items) : is_instance(value.items[i], extract_generic(type_, <<Any>>)[1])
  ELSE IF value.cls.n \in {"int", "float"} /\ value.cls.k = "class" /\ type_ = float THEN TRUE
  ELSE isinstance(value, type_)

\* ------------------------------------------------------------ exceptions
\* dacite.exceptions: the classes deriving from DaciteError / DaciteFieldError
IsDaciteFieldError(err) ==
  err \in {"WrongTypeError", "UnionMatchError", "MissingValueError", "StrictUnionMatchError"}

IsDaciteError(err) ==
  IsDaciteFieldError(err) \/ err \in {"UnexpectedDataError", "ForwardReferenceError"}

\* DaciteFieldError.update_path: the enclosing frame prepends its field name
update_path(error, parent_field_path) == [error EXCEPT !.path = <<parent_field_path>> \o @]

\* the dotted text of a path never needs to be built: a path is the
\* sequence of its field names, outermost first

\* ------------------------------------------------------------------ hooks
\* The callables a caller registers in Config.type_hooks, by name.
ApplyHook(hook, value) ==
  CASE hook = "int" -> Construct(int, value)
    [] hook = "str" -> Construct(str, value)
    [] hook = "none" -> Ok(None)
    [] hook = "wrap" -> Ok(ListV(<<value>>))
    [] hook = "one" -> Ok(IntV("1"))
    [] OTHER -> Ok(value)

\* key == candidate as typing compares them: a Union equals another Union
\* with the same set of members
RECURSIVE TypeEq(_, _)
TypeEq(a, b) ==
  /\ a.k = b.k
  /\ a.n = b.n
  /\ IF a.k = "Union"
     THEN /\ \A i \in 1..Len(a.args) : \E j \in 1..Len(b.args) : TypeEq(a.args[i], b.args[j])
          /\ \A j \in 1..Len(b.args) : \E i \in 1..Len(a.args) : TypeEq(a.args[i], b.args[j])
     ELSE /\ Len(a.args) = Len(b.args)
          /\ \A i \in 1..Len(a.args) : TypeEq(a.args[i], b.args[i])

\* `type_ in type_hooks` and `type_hooks[type_]`
HasHook(type_hooks, type_) == \E key \in DOMAIN type_hooks : TypeEq(key, type_)
HookOf(type_hooks, type_) == type_hooks[CHOOSE key \in DOMAIN type_hooks : TypeEq(key, type_)]

\* typing.List / typing.Dict, the keys of the origin-kind hooks
TypingList == Ty("generic", "list", <<>>)
TypingDict == Ty("generic", "dict", <<>>)

extract_origin_type(collection) ==
  LET collection_type == extract_origin_collection(collection) IN
  IF collection_type = Cls("list") THEN TypingList
  ELSE IF collection_type = Cls("dict") THEN TypingDict
  ELSE NoneValue

\* ------------------------------------------------------ Value Transformer
\* the cast that applies to target_type even though a hook is registered for it
cast_applies_DespiteHook(type_hooks, cast, target_type) ==
  \E cast_type \in cast : is_subclass(target_type, cast_type)

\* types.py lines 19-31: the cast list is consulted only in the else branch
\* of `if target_type in type_hooks`
cast_applies(type_hooks, cast, target_type) ==
  ~HasHook(type_hooks, target_type) /\ \E cast_type \in cast : is_subclass(target_type, cast_type)

\* types.py lines 11-12: Generic hook type match
wildcard_hook(type_hooks, value) ==
  IF HasHook(type_hooks, Any) THEN ApplyHook(HookOf(type_hooks, Any), value) ELSE Ok(value)

\* types.py lines 13-16: the hook for the origin kind of a generic collection
origin_hook(type_hooks, target_type, r) ==
  IF /\ r.ok
     /\ is_generic_collection(target_type)
     /\ extract_origin_type(target_type) # NoneValue
     /\ HasHook(type_hooks, extract_origin_type(target_type))
  THEN ApplyHook(HookOf(type_hooks, extract_origin_type(target_type)), r.v)
  ELSE r

\* types.py lines 18-19: Exact hook type match
exact_hook(type_hooks, target_type, r) ==
  IF r.ok /\ HasHook(type_hooks, target_type)
  THEN ApplyHook(HookOf(type_hooks, target_type), r.v)
  ELSE r

\* types.py lines 20-31: Cast to types in cast list
cast_value(type_hooks, cast, target_type, r) ==
  IF r.ok /\ cast_applies(type_hooks, cast, target_type)
  THEN Construct(IF ~is_generic_collection(target_type) THEN target_type
                 ELSE IF is_set(extract_origin_collection(target_type)) THEN Cls("list")
                 ELSE extract_origin_collection(target_type),
                 r.v)
  ELSE r

\* types.py lines 43-47: the outcome of storing the transformed pairs rs
\* (key 1, item 1, key 2, item 2, ...) in a dict
store_pairs(rs) ==
  LET n == Len(rs) \div 2
      unhashable == {i \in 1..n : rs[2 * i - 1].ok /\ ~IsHashable(rs[2 * i - 1].v)}
      raised == {j \in 1..(2 * n) : ~rs[j].ok}
  IN IF raised = {} /\ unhashable = {}
     THEN Ok(DictOf([i \in 1..n |-> rs[2 * i - 1].v], [i \in 1..n |-> rs[2 * i].v]))
     \* a key without a hash fails when pair i is stored, after item i was transformed
     ELSE IF unhashable # {} /\ \A j \in raised : \E i \in unhashable : j > 2 * i
     THEN Raise("TypeError", None)
     ELSE FirstRaised(rs)

RECURSIVE transform_value(_, _, _, _)
\* types.py lines 32-51, on the outcome r of the hooks and the cast
transform_rest(type_hooks, cast, target_type, r) ==
  IF ~r.ok THEN r
  ELSE IF /\ cast_applies(type_hooks, cast, target_type)
          /\ is_generic_collection(target_type)
          /\ is_set(extract_origin_collection(target_type))
  THEN r                                                      \* return list(value)
  \* Peel optional types
  ELSE IF is_optional(target_type) THEN
    IF r.v = None THEN Ok(None)
    ELSE transform_value(type_hooks, cast, extract_optional(target_type), r.v)
  \* For collections (dict/list), transform each item
  ELSE IF is_generic_collection(target_type) /\ isinstance(r.v, extract_origin_collection(target_type)) THEN
    IF r.v.cls = Cls("dict") THEN
      \* key i is transformed before item i, pair i before pair i+1
      store_pairs([j \in 1..(2 * Len(r.v.keys)) |->
                     transform_value(type_hooks, cast,
                                     extract_generic(target_type, <<Any, Any>>)[2 - (j % 2)],
                                     IF j % 2 = 1 THEN r.v.keys[(j + 1) \div 2] ELSE r.v.items[j \div 2])])
    ELSE
      Collect(r.v.cls,
              [i \in 1..Len(r.v.items) |->
                 transform_value(type_hooks, cast, extract_generic(target_type, <<Any>>)[1], r.v.items[i])])
  ELSE r

transform_value(type_hooks, cast, target_type, value) ==
  transform_rest(type_hooks, cast, target_type,
    cast_value(type_hooks, cast, target_type,
      exact_hook(type_hooks, target_type,
        origin_hook(type_hooks, target_type,
          wildcard_hook(type_hooks, value)))))

\* ------------------------------------------------------------ data classes
\* dacite.dataclasses.get_fields: the declared fields of each data class of
\* the model, by class name (the field types are the class's args)
FieldNames(n) ==
  CASE n = "Box" -> <<"f">>
    [] n = "Pair" -> <<"a", "b">>
    [] n = "Leaf" -> <<"g", "h">>
    [] n = "N1" -> <<"f1">>
    [] n = "N2" -> <<"f2">>
    [] n = "N3" -> <<"f3">>
    [] n = "N4" -> <<"f4">>
    [] n = "Dflt" -> <<"a", "d", "p">>
    [] OTHER -> <<"x", "y", "z">>

get_fields(data_class) ==
  [i \in 1..Len(data_class.args) |->
     [name |-> FieldNames(data_class.n)[i],
      init |-> ~(data_class.n = "Dflt" /\ i = 3),
      has_default |-> data_class.n = "Dflt" /\ i \in {2, 3},
      default |-> IntV("0")]]

\* dacite.dataclasses.get_default_value_for_field
get_default_value_for_field(field, type_, allow_missing_fields_as_none) ==
  IF field.has_default THEN Ok(field.default)
  ELSE IF allow_missing_fields_as_none /\ is_optional(type_) THEN Ok(None)
  ELSE Raise("DefaultValueNotFoundError", None)

\* the per-field outcome of the loop body when the field is skipped (continue)
Skip == [ok |-> TRUE, v |-> None, err |-> "continue", path |-> <<>>, keys |-> {}, types |-> {}]

\* dacite.dataclasses.create_instance: init_values and post_init_values map
\* field names to values; a non-init field in neither is left to the
\* class's own default
create_instance(data_class, init_values, post_init_values) ==
  LET fields == get_fields(data_class) IN
  Val(data_class, "",
      [i \in 1..Len(fields) |-> StrV(fields[i].name)],
      [i \in 1..Len(fields) |->
         IF fields[i].name \in DOMAIN init_values THEN init_values[fields[i].name]
         ELSE IF fields[i].name \in DOMAIN post_init_values THEN post_init_values[fields[i].name]
         ELSE fields[i].default])

\* `name in data`, `data[name]` and `data.keys()` for a mapping with str keys
DataHas(data, name) == \E i \in 1..Len(data.keys) : data.keys[i] = StrV(name)
DataGet(data, name) == data.items[CHOOSE i \in 1..Len(data.keys) : data.keys[i] = StrV(name)]
DataKeys(data) == {data.keys[i].n : i \in 1..Len(data.keys)}

\* dacite.data.Data
Data == Dict(str, Any)

\* ----------------------------------------------------------- Value Builder
RECURSIVE from_dict(_, _, _)
RECURSIVE process_field(_, _, _, _)
RECURSIVE _build_value(_, _, _)
RECURSIVE _build_value_for_union(_, _, _)
RECURSIVE union_scan(_, _, _, _, _)
RECURSIVE _build_value_for_collection(_, _, _)

\* for every item, _build_value against the type paired with it
BuildEach(types, items, config) == [i \in 1..Len(items) |-> _build_value(types[i], items[i], config)]

\* core.py lines 142-156: the items that _build_value_for_collection builds,
\* in order (zip_longest fills the shorter of data and types with None)
zipped_items(collection, data) ==
  IF /\ isinstance(data, Cls("tuple"))
     /\ data.items # <<>>
     /\ ~(Len(extract_generic(collection, <<>>)) = 2 /\ extract_generic(collection, <<>>)[2] = Ellipsis)
     /\ Len(extract_generic(collection, <<>>)) > Len(data.items)
  THEN [i \in 1..Len(extract_generic(collection, <<>>)) |-> IF i <= Len(data.items) THEN data.items[i] ELSE None]
  ELSE data.items

\* core.py lines 142-156: the type each of these items is built against
zipped_types(collection, data) ==
  IF isinstance(data, Cls("dict"))
  THEN [i \in 1..Len(data.items) |-> extract_generic(collection, <<Any, Any>>)[2]]
  ELSE IF isinstance(data, Cls("tuple")) THEN
    IF Len(extract_generic(collection, <<>>)) = 2 /\ extract_generic(collection, <<>>)[2] = Ellipsis
    THEN [i \in 1..Len(data.items) |-> extract_generic(collection, <<>>)[1]]
    ELSE [i \in 1..Len(zipped_items(collection, data)) |->
            IF i <= Len(extract_generic(collection, <<>>)) THEN extract_generic(collection, <<>>)[i]
            ELSE NoneValue]
  ELSE [i \in 1..Len(data.items) |-> extract_generic(collection, <<Any>>)[1]]

\* data_type(...) on the built items rs
collected(data, rs) ==
  IF isinstance(data, Cls("dict"))
  THEN (IF AllOk(rs) THEN Ok(DictOf(data.keys, Vals(rs))) ELSE FirstRaised(rs))
  ELSE Collect(data.cls, rs)

_build_value_for_collection(collection, data, config) ==
  collected(data, BuildEach(zipped_types(collection, data), zipped_items(collection, data), config))

\* The loop of _build_value_for_union from member i on. data is the value
\* carried from the earlier members' transforms, union_matches the matches
\* recorded so far (a sequence of [type, value], in insertion order).
\* The outcome is [returned, r, data, union_matches]: returned when the loop
\* was left by a return or an exception (r), else the state after the loop.
\* core.py lines 124-131, value being the outcome of _build_value for member i
union_built(types, i, data, union_matches, config, value) ==
  IF ~value.ok THEN
    IF IsDaciteError(value.err)
    THEN union_scan(types, i + 1, data, union_matches, config)                 \* except DaciteError: pass
    ELSE [returned |-> TRUE, r |-> value, data |-> data, union_matches |-> union_matches]
  ELSE IF is_instance(value.v, types[i]) THEN
    IF config.strict_unions_match
    THEN union_scan(types, i + 1, data,
                    SelectSeq(union_matches, LAMBDA m : m.type # types[i])
                      \o <<[type |-> types[i], value |-> value.v]>>,
                    config)
    ELSE [returned |-> TRUE, r |-> value, data |-> data, union_matches |-> union_matches]
  ELSE union_scan(types, i + 1, data, union_matches, config)

\* core.py lines 117-124, t being the outcome of transform_value for member i
union_member(types, i, data, union_matches, config, t) ==
  IF ~t.ok THEN union_scan(types, i + 1, data, union_matches, config)          \* except Exception: continue
  ELSE union_built(types, i, t.v, union_matches, config, _build_value(types[i], t.v, config))

union_scan(types, i, data, union_matches, config) ==
  IF i > Len(types)
  THEN [returned |-> FALSE, r |-> Ok(data), data |-> data, union_matches |-> union_matches]
  ELSE union_member(types, i, data, union_matches, config,
                    transform_value(config.type_hooks, config.cast, types[i], data))

\* core.py lines 132-138, s being the outcome of the loop
union_result(union, config, s) ==
  IF s.returned THEN s.r
  ELSE IF config.strict_unions_match THEN
    IF Len(s.union_matches) > 1
    THEN [Raise("StrictUnionMatchError", s.data) EXCEPT
            !.types = {s.union_matches[j].type : j \in 1..Len(s.union_matches)}]
    ELSE IF Len(s.union_matches) = 0 THEN Raise("KeyError", None)               \* popitem() on an empty dict
    ELSE Ok(s.union_matches[Len(s.union_matches)].value)
  ELSE IF ~config.check_types THEN Ok(s.data)
  ELSE [Raise("UnionMatchError", s.data) EXCEPT !.types = {union}]

_build_value_for_union(union, data, config) ==
  IF is_optional(union) /\ Len(extract_generic(union, <<>>)) = 2
  THEN _build_value(extract_generic(union, <<>>)[1], data, config)
  ELSE union_result(union, config, union_scan(extract_generic(union, <<>>), 1, data, <<>>, config))

_build_value(type_, data, config) ==
  IF is_union(type_) THEN _build_value_for_union(type_, data, config)
  ELSE IF is_generic_collection(type_) THEN
    IF is_instance(data, extract_origin_collection(type_)) THEN _build_value_for_collection(type_, data, config)
    ELSE IF is_set(extract_origin_collection(type_)) THEN
      IF ~IsIterable(data) THEN Raise("TypeError", None)                         \* for single_val in data
      ELSE Collect(extract_origin_collection(type_),
                   [i \in 1..Len(Iter(data)) |->
                      _build_value(extract_generic(type_, <<>>)[1], Iter(data)[i], config)])
    ELSE Ok(data)
  ELSE IF is_dataclass(type_) /\ is_instance(data, Data) THEN from_dict(type_, data, config)
  ELSE Ok(data)

\* ---------------------------------------------------------- Record Assembler
\* extra_fields without the subtraction of the declared names
extra_fields_AllKeys(data_class, data) == DataKeys(data)

\* the keys of data that are no field of data_class (core.py line 53)
extra_fields(data_class, data) ==
  DataKeys(data) \ {get_fields(data_class)[i].name : i \in 1..Len(data_class.args)}

\* get_data_class_hints fails on a forward reference that the namespace
\* config.forward_references does not resolve
UnresolvedHints(data_class, config) ==
  \E i \in 1..Len(data_class.args) :
     data_class.args[i].k = "ForwardRef" /\ data_class.args[i].n \notin config.forward_references

\* core.py lines 61-64: the Transformer's outcome for field number i
field_transform(data_class, i, data, config) ==
  transform_value(config.type_hooks, config.cast, data_class.args[i],
                  DataGet(data, get_fields(data_class)[i].name))

\* core.py line 65: the Value Builder on the Transformer's outcome
build_transformed(type, config, transformed_value) ==
  IF transformed_value.ok THEN _build_value(type, transformed_value.v, config) ELSE transformed_value

\* core.py lines 66-68: a DaciteFieldError gets the field's name prepended
\* to its path
with_field_path(field_name, value) ==
  IF ~value.ok /\ IsDaciteFieldError(value.err) THEN update_path(value, field_name) ELSE value

\* field_build without error.update_path(field.name)
field_build_NoPath(data_class, i, data, config) ==
  build_transformed(data_class.args[i], config, field_transform(data_class, i, data, config))

\* core.py lines 60-68: transform, then build, inside the try
field_build(data_class, i, data, config) ==
  with_field_path(get_fields(data_class)[i].name,
                  build_transformed(data_class.args[i], config, field_transform(data_class, i, data, config)))

\* core.py lines 69-70: the conformance check on the outcome of the build
checked(field_name, type, config, value) ==
  IF ~value.ok THEN value
  ELSE IF config.check_types /\ ~is_instance(value.v, type)
  THEN [Raise("WrongTypeError", value.v) EXCEPT !.path = <<field_name>>, !.types = {type}]
  ELSE value

\* core.py lines 75-81: the default of a field missing from data
default_or_missing(field_name, value) ==
  IF value.ok THEN value ELSE [Raise("MissingValueError", None) EXCEPT !.path = <<field_name>>]

\* process_field without the conformance check of line 69
process_field_NoCheck(data_class, i, data, config) ==
  IF DataHas(data, get_fields(data_class)[i].name) THEN field_build(data_class, i, data, config)
  ELSE IF ~get_fields(data_class)[i].init THEN Skip
  ELSE default_or_missing(get_fields(data_class)[i].name,
                          get_default_value_for_field(get_fields(data_class)[i], data_class.args[i],
                                                      config.allow_missing_fields_as_none))

\* one iteration of the loop over data_class_fields (core.py lines 56-85):
\* the value bound to field number i, Skip, or the exception raised
process_field(data_class, i, data, config) ==
  IF DataHas(data, get_fields(data_class)[i].name)
  THEN checked(get_fields(data_class)[i].name, data_class.args[i], config,
               field_build(data_class, i, data, config))
  ELSE IF ~get_fields(data_class)[i].init THEN Skip
  ELSE default_or_missing(get_fields(data_class)[i].name,
                          get_default_value_for_field(get_fields(data_class)[i], data_class.args[i],
                                                      config.allow_missing_fields_as_none))

\* the fields bound so far, as the dict the loop fills: init selects
\* init_values (field.init) or post_init_values
Bound(data_class, rs, init) ==
  LET fields == get_fields(data_class)
      at == [name \in {fields[i].name : i \in 1..Len(rs)} |-> CHOOSE i \in 1..Len(rs) : fields[i].name = name]
  IN [name \in {fields[i].name : i \in {j \in 1..Len(rs) : rs[j].err # "continue" /\ fields[j].init = init}}
        |-> rs[at[name]].v]

\* core.py lines 56-87, rs being the outcomes of the loop's iterations
instance_of(data_class, rs) ==
  IF AllOk(rs)
  THEN Ok(create_instance(data_class, Bound(data_class, rs, TRUE), Bound(data_class, rs, FALSE)))
  ELSE FirstRaised(rs)

from_dict(data_class, data, config) ==
  IF UnresolvedHints(data_class, config) THEN Raise("ForwardReferenceError", None)
  ELSE IF config.strict /\ extra_fields(data_class, data) # {}
  THEN [Raise("UnexpectedDataError", None) EXCEPT !.keys = extra_fields(data_class, data)]
  ELSE instance_of(data_class, [i \in 1..Len(data_class.args) |-> process_field(data_class, i, data, config)])

\* ============================================================ state machine
\* The state of one call from_dict(data_class, data, config): the three
\* arguments, the position in the function body and its locals.
VARIABLES data_class, data, config, pc, idx, init_values, post_init_values,
          transformed_value, value, result

vars == <<data_class, data, config, pc, idx, init_values, post_init_values,
          transformed_value, value, result>>

\* no value yet
Pending == Raise("pending", None)
EmptyDict == [name \in {} |-> None]
Put(d, name, v) == [x \in DOMAIN d \cup {name} |-> IF x = name THEN v ELSE d[x]]

InitCall(classes, datas, configs) ==
  /\ data_class \in classes
  /\ data \in datas
  /\ config \in configs
  /\ pc = "start"
  /\ idx = 1
  /\ init_values = EmptyDict
  /\ post_init_values = EmptyDict
  /\ transformed_value = Pending
  /\ value = Pending
  /\ result = Pending

\* core.py lines 44-55: resolve the hints, reject unexpected keys
Start ==
  /\ pc = "start"
  /\ IF UnresolvedHints(data_class, config)
     THEN result' = Raise("ForwardReferenceError", None) /\ pc' = "done"
     ELSE IF config.strict /\ extra_fields(data_class, data) # {}
     THEN /\ result' = [Raise("UnexpectedDataError", None) EXCEPT !.keys = extra_fields(data_class, data)]
          /\ pc' = "done"
     ELSE result' = result /\ pc' = "fields"
  /\ UNCHANGED <<data_class, data, config, idx, init_values, post_init_values, transformed_value, value>>

\* core.py lines 82-85, or the exception leaving the call: r is the
\* outcome of the loop body for field
Bind(field, r) ==
  IF r.ok
  THEN /\ init_values' = IF r.err # "continue" /\ field.init
                         THEN Put(init_values, field.name, r.v) ELSE init_values
       /\ post_init_values' = IF r.err # "continue" /\ ~field.init
                              THEN Put(post_init_values, field.name, r.v) ELSE post_init_values
       /\ idx' = idx + 1
       /\ UNCHANGED <<pc, result>>
  ELSE /\ result' = r
       /\ pc' = "done"
       /\ UNCHANGED <<idx, init_values, post_init_values>>

\* core.py lines 56-85: one iteration of the loop over the fields
ProcessField ==
  /\ pc = "fields"
  /\ idx <= Len(data_class.args)
  /\ transformed_value' = IF DataHas(data, get_fields(data_class)[idx].name)
                          THEN field_transform(data_class, idx, data, config) ELSE Pending
  /\ value' = IF DataHas(data, get_fields(data_class)[idx].name)
              THEN field_build(data_class, idx, data, config)
              ELSE process_field(data_class, idx, data, config)
  /\ Bind(get_fields(data_class)[idx], process_field(data_class, idx, data, config))
  /\ UNCHANGED <<data_class, data, config>>

\* core.py line 87
CreateInstance ==
  /\ pc = "fields"
  /\ idx > Len(data_class.args)
  /\ result' = Ok(create_instance(data_class, init_values, post_init_values))
  /\ pc' = "done"
  /\ UNCHANGED <<data_class, data, config, idx, init_values, post_init_values, transformed_value, value>>

Next == Start \/ ProcessField \/ CreateInstance


\* ============================================================== inputs
\* the longest raw sequence (list or tuple) of the input universes
MaxLen == 3
\* the longest chain of nested record-typed fields
MaxDepth == 2

SeqsUpTo(S, n) == UNION {[1..m -> S] : m \in 0..n}

\* Config(...) as config.py declares it
Config(type_hooks, cast, check_types, strict, strict_unions_match, allow_missing_fields_as_none) ==
  [type_hooks |-> type_hooks, cast |-> cast, forward_references |-> {},
   check_types |-> check_types, strict |-> strict, strict_unions_match |-> strict_unions_match,
   allow_missing_fields_as_none |-> allow_missing_fields_as_none]

NoHooks == [t \in {} |-> "id"]
Hook(t, h) == [x \in {t} |-> h]
Hooks2(t1, h1, t2, h2) == [x \in {t1, t2} |-> IF x = t1 THEN h1 ELSE h2]

Box(t) == DataClass("Box", <<t>>)
Leaf == DataClass("Leaf", <<int, str>>)
\* {"f": v}
BoxData(v) == DictV(<<StrV("f")>>, <<v>>)

Scalars == {None, IntV("1"), StrV("1"), StrV("a"), FloatV("2")}
Lists == {ListV(s) : s \in SeqsUpTo({IntV("1"), StrV("a")}, MaxLen)}
Maps == {BoxData(IntV("1")), BoxData(StrV("a")), DictV(<<>>, <<>>)}
RawValues == Scalars \cup Lists \cup Maps

\* --------------------------------------------------- records (C1, C6, C8)
Pair(t1, t2) == DataClass("Pair", <<t1, t2>>)

\* a mapping with some of the keys names, in that order: choice gives each
\* name its value, or Absent
Absent == Val(Cls("<absent>"), "", <<>>, <<>>)
DictOfChoice(names, choice) ==
  LET present == SelectSeq([i \in 1..Len(names) |-> i], LAMBDA i : choice[i] # Absent)
  IN DictV([j \in 1..Len(present) |-> StrV(names[present[j]])],
           [j \in 1..Len(present) |-> choice[present[j]]])
\* every way to give each position i a value of vals[i], or Absent
RECURSIVE Choices(_)
Choices(vals) ==
  IF vals = <<>> THEN {<<>>}
  ELSE {<<x>> \o rest : x \in Head(vals) \cup {Absent}, rest \in Choices(Tail(vals))}
\* vals[i] are the values the key names[i] may have
Dicts(names, vals) == {DictOfChoice(names, choice) : choice \in Choices(vals)}

\* N_k(f_k: N_k-1(... N_1(f_1: Leaf(g: int, h: str))))
LevelNames == <<"N1", "N2", "N3", "N4">>
RECURSIVE Chain(_)
Chain(k) == IF k = 0 THEN Leaf ELSE DataClass(LevelNames[k], <<Chain(k - 1)>>)
RECURSIVE ChainData(_, _)
ChainData(k, leaf) ==
  IF k = 0 THEN leaf ELSE DictV(<<StrV(FieldNames(LevelNames[k])[1])>>, <<ChainData(k - 1, leaf)>>)

FlatClasses ==
  {Pair(int, str), Pair(int, Optional(int)), Pair(Union(<<int, str>>), List(str)),
   DataClass("Dflt", <<int, int, int>>)}
FlatDatas ==
  Dicts(<<"a", "b", "p", "z", "y">>,
        <<{IntV("1"), StrV("a"), ListV(<<StrV("a")>>)},
          {IntV("1"), StrV("a"), None} \cup {ListV(s) : s \in SeqsUpTo({IntV("1"), StrV("a")}, MaxLen)},
          {IntV("1")}, {IntV("1")}, {IntV("1")}>>)
LeafDatas == Dicts(<<"g", "h", "z">>, <<{IntV("1"), StrV("a")}, {IntV("1"), StrV("a")}, {IntV("1")}>>)
RecordConfigs ==
  {Config(h, {}, ct, st, FALSE, am) :
     h \in {NoHooks, Hook(int, "str")}, ct \in BOOLEAN, st \in BOOLEAN, am \in BOOLEAN}

InitRecord ==
  /\ InitCall(FlatClasses \cup {Chain(k) : k \in 0..MaxDepth},
              FlatDatas \cup {ChainData(k, leaf) : k \in 0..MaxDepth, leaf \in LeafDatas \cup {IntV("1")}},
              RecordConfigs)
  \* a flat class gets flat data, a chain of depth k data nested k deep
  /\ \/ data_class \in FlatClasses /\ data \in FlatDatas
     \/ \E k \in 0..MaxDepth :
          /\ data_class = Chain(k)
          /\ data \in {ChainData(k, leaf) : leaf \in LeafDatas \cup (IF k = 0 THEN {} ELSE {IntV("1")})}

SpecRecord == InitRecord /\ [][Next]_vars

\* the declared field names of the class of the call
DeclaredNames == {get_fields(data_class)[i].name : i \in 1..Len(data_class.args)}
ExtraKeys == {k \in DataKeys(data) : k \notin DeclaredNames}
\* this very record raised UnexpectedDataError: no field of it was processed
RaisedUnexpected == pc = "done" /\ result.err = "UnexpectedDataError" /\ value = Pending

\* C1: in strict mode, raw keys that are no declared field make the call fail
\* with UnexpectedDataError carrying exactly those keys, before any field is
\* processed; without such a key this record raises no UnexpectedDataError.
C1_StrictUnexpectedKeys ==
  config.strict =>
    /\ ExtraKeys # {} => pc \in {"start", "done"}
    /\ (ExtraKeys # {} /\ pc = "done") =>
         /\ result.err = "UnexpectedDataError"
         /\ result.keys = ExtraKeys
         /\ idx = 1 /\ init_values = EmptyDict /\ post_init_values = EmptyDict
         /\ transformed_value = Pending /\ value = Pending
    /\ ExtraKeys = {} => ~RaisedUnexpected

C1_Witness ==
  /\ config.strict /\ RaisedUnexpected
  /\ result.keys = {"z", "y"}
  /\ DataHas(data, "a") /\ DataHas(data, "b")

\* the field the last iteration of the loop worked on (0 before the first)
LastField == IF pc = "done" /\ ~result.ok /\ value # Pending THEN idx ELSE idx - 1
\* the value the instance v holds for the field name
InstanceGet(v, name) == v.items[CHOOSE i \in 1..Len(v.keys) : v.keys[i] = StrV(name)]

\* C8: with check_types, every field of a returned instance that was present
\* in the raw data holds a value conforming to its declared type; a built
\* value that does not conform makes the call raise WrongTypeError naming the
\* field, and no instance is returned.
C8_CheckedFieldsConform ==
  config.check_types =>
    /\ (pc = "done" /\ result.ok) =>
         /\ result.v.cls = data_class
         /\ \A i \in 1..Len(data_class.args) :
              DataHas(data, FieldNames(data_class.n)[i]) =>
                is_instance(InstanceGet(result.v, FieldNames(data_class.n)[i]), data_class.args[i])
    /\ (/\ LastField \in 1..Len(data_class.args)
        /\ DataHas(data, FieldNames(data_class.n)[LastField])
        /\ value.ok
        /\ ~is_instance(value.v, data_class.args[LastField])) =>
         /\ pc = "done" /\ ~result.ok
         /\ result.err = "WrongTypeError"
         /\ result.path = <<FieldNames(data_class.n)[LastField]>>
         /\ result.v = value.v

\* an instance whose two fields, a Union and a List, were present and checked
C8_Witness ==
  /\ config.check_types /\ pc = "done" /\ result.ok
  /\ data_class = Pair(Union(<<int, str>>), List(str))
  /\ DataHas(data, "a") /\ DataHas(data, "b")
  /\ InstanceGet(result.v, "b") = ListV(<<StrV("a")>>)

\* the chain depth of the class of the call, and the raw data of its Leaf
RECURSIVE Depth(_)
Depth(cls) == IF cls.k = "dataclass" /\ cls.n # "Leaf" /\ Len(cls.args) = 1 THEN 1 + Depth(cls.args[1]) ELSE 0
RECURSIVE LeafData(_, _)
LeafData(k, d) == IF k = 0 THEN d ELSE LeafData(k - 1, d.items[1])
\* <<f_k, ..., f_1>>: the fields from the root down to the Leaf
ChainPath(k) == [j \in 1..k |-> FieldNames(LevelNames[k + 1 - j])[1]]

IsChainCall == data_class \in {Chain(k) : k \in 0..Depth(data_class)}

\* the field-level error that a Leaf(g: int, h: str) built from the raw
\* mapping leaf must end with, as <<error, field>>, or <<>> when there is none
LeafFault(leaf, check_types) ==
  IF ~DataHas(leaf, "g") THEN <<"MissingValueError", "g">>
  ELSE IF check_types /\ DataGet(leaf, "g").cls # int THEN <<"WrongTypeError", "g">>
  ELSE IF ~DataHas(leaf, "h") THEN <<"MissingValueError", "h">>
  ELSE IF check_types /\ DataGet(leaf, "h").cls # str THEN <<"WrongTypeError", "h">>
  ELSE <<>>

\* C6: a WrongTypeError or MissingValueError that originates at field g of a
\* record reached from the root through the record-typed fields f1, ..., fk
\* leaves the top-level call with the path f1.f2.....fk.g.
C6_ErrorPathFromRoot ==
  (IsChainCall /\ pc = "done") =>
    LET k == Depth(data_class)
        leaf == LeafData(k, data)
        rejected == config.strict /\ leaf.cls = Cls("dict") /\ DataHas(leaf, "z")
    IN
    \* whatever the configuration, the path leads from the root to the failing field
    /\ result.err \in {"WrongTypeError", "MissingValueError"} =>
         \/ result.path \in {ChainPath(k) \o <<"g">>, ChainPath(k) \o <<"h">>}
         \/ k > 0 /\ leaf.cls # Cls("dict") /\ result.path = ChainPath(k)
    \* without hooks, the failing field is the first one at fault
    /\ config.type_hooks = NoHooks =>
         IF rejected THEN result.err = "UnexpectedDataError"
         ELSE IF leaf.cls # Cls("dict")
         \* the error originates at f1, the field that should hold the Leaf
         THEN IF config.check_types
              THEN result.err = "WrongTypeError" /\ result.path = ChainPath(k)
              ELSE result.ok
         ELSE LET fault == LeafFault(leaf, config.check_types) IN
              IF fault = <<>> THEN result.ok
              ELSE result.err = fault[1] /\ result.path = ChainPath(k) \o <<fault[2]>>

C6_Witness ==
  /\ IsChainCall /\ pc = "done"
  /\ result.err = "MissingValueError"
  /\ result.path = <<"f2", "f1", "h">>

\* ------------------------------------------------------ unions (C3, C4, C5)
UnionTypes ==
  {Union(<<int, str>>), Union(<<str, int>>), Union(<<int, float>>), Union(<<float, int>>),
   Union(<<int, str, NoneType>>), Union(<<int, float, str>>),
   Union(<<List(int), str>>), Union(<<List(str), List(int)>>),
   Union(<<Set(int), int>>), Union(<<int, float, Set(int)>>),
   Union(<<Box(int), Leaf>>), Union(<<Leaf, Box(int)>>), Union(<<Box(int), Box(str)>>)}
UnionConfigs ==
  {Config(h, c, ct, FALSE, su, FALSE) :
     h \in {NoHooks, Hook(int, "none"), Hook(str, "int"), Hook(float, "int"), Hook(Any, "str")},
     c \in {{}, {int}, {str}}, ct \in BOOLEAN, su \in BOOLEAN}
LeafOk == DictV(<<StrV("g"), StrV("h")>>, <<IntV("1"), StrV("a")>>)

InitUnion ==
  InitCall({Box(u) : u \in UnionTypes}, {BoxData(v) : v \in RawValues \cup {LeafOk}}, UnionConfigs)

SpecUnion == InitUnion /\ [][Next]_vars

\* The field f of the Box of the call has been through the loop body
FieldDone == value # Pending /\ Len(data_class.args) = 1 /\ DataHas(data, "f")
FieldType == data_class.args[1]
\* the union of the call is resolved by the loop over its members
ScannedUnion ==
  /\ FieldDone /\ transformed_value.ok
  /\ is_union(FieldType)
  /\ ~(is_optional(FieldType) /\ Len(FieldType.args) = 2)
\* the raw value handed to the union resolution
UnionInput == transformed_value.v

\* probing member i alone on the value v: its transform, then its build
ProbeTransform(i, v) == transform_value(config.type_hooks, config.cast, FieldType.args[i], v)
ProbeBuild(i, v) == _build_value(FieldType.args[i], ProbeTransform(i, v).v, config)
ProbeMatches(i, v) ==
  /\ ProbeTransform(i, v).ok
  /\ ProbeBuild(i, v).ok
  /\ is_instance(ProbeBuild(i, v).v, FieldType.args[i])

\* the value member i is probed with: the output of the last transform
\* that succeeded among the members before it
RECURSIVE Carried(_)
Carried(i) ==
  IF i = 1 THEN UnionInput
  ELSE IF ProbeTransform(i - 1, Carried(i - 1)).ok THEN ProbeTransform(i - 1, Carried(i - 1)).v
  ELSE Carried(i - 1)
\* the members whose built value conforms to them
Matching == {i \in 1..Len(FieldType.args) : ProbeMatches(i, Carried(i))}
MatchingAlone == {i \in 1..Len(FieldType.args) : ProbeMatches(i, UnionInput)}
First(S) == CHOOSE i \in S : \A j \in S : i <= j

\* C3: in relaxed mode a union returns the value built for the first member,
\* in declaration order, that matches when tried on the raw value.
C3_FirstMatchOnRawValue ==
  (ScannedUnion /\ ~config.strict_unions_match /\ MatchingAlone # {}) =>
    /\ value.ok
    /\ value.v = ProbeBuild(First(MatchingAlone), UnionInput).v

\* C4: in strict_unions_match mode, two or more matching members make the
\* construction fail with StrictUnionMatchError naming exactly those members.
C4_AmbiguityNamesMatches ==
  (ScannedUnion /\ config.strict_unions_match /\ Cardinality(Matching) >= 2) =>
    /\ ~value.ok
    /\ value.err = "StrictUnionMatchError"
    /\ value.types = {FieldType.args[i] : i \in Matching}

\* C5: in strict_unions_match mode, no matching member makes the
\* construction fail with UnionMatchError; exactly one returns its value.
C5_StrictZeroOrOneMatch ==
  (ScannedUnion /\ config.strict_unions_match) =>
    /\ Matching = {} => ~value.ok /\ value.err = "UnionMatchError"
    /\ Cardinality(Matching) = 1 => value.ok /\ value.v = ProbeBuild(First(Matching), Carried(First(Matching))).v

\* ------------------------------------------- two-member unions (C2, C10)
\* the types T that are made optional: scalar, record, list-like, set-like,
\* map-like and tuple
NonNullTypes == {int, Leaf, List(int), Set(int), Dict(str, int), Tuple(<<int, int>>)}
\* T-then-null and null-then-T
OptionalTypes == {Optional(t) : t \in NonNullTypes} \cup {Union(<<NoneType, t>>) : t \in NonNullTypes}
OptionalValues ==
  RawValues \cup {LeafOk, TupleV(<<IntV("1"), IntV("2")>>), DictV(<<StrV("a")>>, <<IntV("1")>>)}
OptionalConfigs ==
  {Config(h, c, ct, st, FALSE, FALSE) :
     h \in {NoHooks, Hook(int, "str"), Hook(Any, "one")}, c \in {{}, {int}},
     ct \in BOOLEAN, st \in BOOLEAN}

InitOptional ==
  InitCall({Box(t) : t \in OptionalTypes}, {BoxData(v) : v \in OptionalValues}, OptionalConfigs)

SpecOptional == InitOptional /\ [][Next]_vars

\* the declared type of f is a union of NoneType and one other member
TwoMemberOptional == is_optional(FieldType) /\ Len(FieldType.args) = 2
\* the single non-null member
NonNullMember == extract_optional(FieldType)
RawValue == DataGet(data, "f")

\* C2: a field declared Optional(T) whose raw value is None gets None, with
\* no error, whatever T and the configuration are.
C2_OptionalNullYieldsNone ==
  (FieldDone /\ TwoMemberOptional /\ FieldType.args[2] = NoneType /\ RawValue = None) =>
    /\ value = Ok(None)
    /\ pc = "done" => result.ok /\ InstanceGet(result.v, "f") = None

\* C10: a two-member union with NoneType builds the value against its
\* non-null member, whether NoneType is declared first or second.
C10_NullMemberOrderIrrelevant ==
  (FieldDone /\ TwoMemberOptional /\ transformed_value.ok /\ transformed_value.v # None) =>
    value = (LET r == _build_value(NonNullMember, transformed_value.v, config)
             IN IF ~r.ok /\ IsDaciteFieldError(r.err) THEN update_path(r, "f") ELSE r)

\* ------------------------------------------------- fixed-arity tuples (C7)
TupleTypes ==
  {Tuple(<<int, int>>), Tuple(<<int, str>>), Tuple(<<int, Optional(int)>>), Tuple(<<Optional(int)>>),
   Tuple(<<int, List(int)>>), Tuple(<<int, int, int>>), Tuple(<<int, Ellipsis>>)}
TupleValues == {TupleV(s) : s \in SeqsUpTo({IntV("1"), StrV("a"), None}, MaxLen)}
TupleConfigs == {Config(NoHooks, {}, ct, st, FALSE, FALSE) : ct \in BOOLEAN, st \in BOOLEAN}

InitTuple ==
  InitCall({Box(t) : t \in TupleTypes}, {BoxData(v) : v \in TupleValues \cup {ListV(<<IntV("1")>>)}},
           TupleConfigs)

SpecTuple == InitTuple /\ [][Next]_vars

\* the declared type of f is Tuple[T1, ..., Tn], not Tuple[T, ...]
FixedArityTuple ==
  /\ is_tuple(FieldType)
  /\ ~(Len(FieldType.args) = 2 /\ FieldType.args[2] = Ellipsis)

\* C7: with check_types and no hooks or casts, a tuple input whose length
\* differs from the arity of the declared fixed-arity tuple makes the call
\* fail with WrongTypeError for the field; no instance is returned.
C7_ArityMismatchRejected ==
  (/\ pc = "done" /\ Len(data_class.args) = 1 /\ DataHas(data, "f")
   /\ config.check_types /\ config.type_hooks = NoHooks /\ config.cast = {}
   /\ FixedArityTuple
   /\ RawValue.cls = Cls("tuple")
   /\ Len(RawValue.items) # Len(FieldType.args)) =>
    /\ ~result.ok
    /\ result.err = "WrongTypeError"
    /\ result.path = <<"f">>

\* ------------------------------------------------ exact-type hooks (C9)
TransformTypes == {int, Optional(int), List(int), Optional(List(int)), Dict(str, int), Set(int)}
TransformValues ==
  {None, IntV("1"), StrV("1"), StrV("a"),
   ListV(<<StrV("a")>>),
   DictV(<<StrV("a")>>, <<StrV("1")>>), DictV(<<IntV("1")>>, <<StrV("a")>>)}
    \cup {ListV(s) : s \in SeqsUpTo({StrV("1"), IntV("2")}, MaxLen)}
\* the hooks registered besides the one for the declared type
OtherHooks ==
  {NoHooks, Hook(int, "int"), Hook(Any, "id"), Hook(TypingList, "wrap"), Hooks2(int, "int", Any, "id")}
WithExact(t, h, others) == [x \in {t} \cup DOMAIN others |-> IF x = t THEN h ELSE others[x]]
TransformHooks ==
  OtherHooks \cup {WithExact(t, h, others) : t \in TransformTypes, h \in {"id", "wrap", "none"}, others \in OtherHooks}
TransformConfigs ==
  {Config(h, c, ct, FALSE, FALSE, FALSE) : h \in TransformHooks, c \in SUBSET {int, Cls("list")}, ct \in BOOLEAN}

InitTransform ==
  InitCall({Box(t) : t \in TransformTypes}, {BoxData(v) : v \in TransformValues}, TransformConfigs)

SpecTransform == InitTransform /\ [][Next]_vars

\* a hook is registered for the exact declared type of f, and f went
\* through the Transformer
ExactHooked == FieldDone /\ HasHook(config.type_hooks, FieldType)
\* the output of the exact hook, applied after the wildcard and the
\* origin-kind hook
HookOutput ==
  LET wildcard == IF HasHook(config.type_hooks, Any)
                  THEN ApplyHook(HookOf(config.type_hooks, Any), RawValue) ELSE Ok(RawValue)
      kind == extract_origin_type(FieldType)
      origin == IF wildcard.ok /\ is_generic_collection(FieldType)
                   /\ kind # NoneValue /\ HasHook(config.type_hooks, kind)
                THEN ApplyHook(HookOf(config.type_hooks, kind), wildcard.v) ELSE wildcard
  IN IF origin.ok THEN ApplyHook(HookOf(config.type_hooks, FieldType), origin.v) ELSE origin
\* the cast list names the declared type: without the hook a cast would run
CastListed == \E cast_type \in config.cast : is_subclass(FieldType, cast_type)
\* transform of every element of the collection v against item_type
EachItem(item_type, v) ==
  [i \in 1..Len(v.items) |-> transform_value(config.type_hooks, config.cast, item_type, v.items[i])]
EachKey(key_type, v) ==
  [i \in 1..Len(v.keys) |-> transform_value(config.type_hooks, config.cast, key_type, v.keys[i])]

\* C9 as stated: the result of transform is exactly the exact hook's output.
C9_ExactHookIsTerminal ==
  ExactHooked => transformed_value = HookOutput

\* C9 amended: an exact hook keeps the cast list from being applied to the
\* declared type, and its output is the result when the declared type is
\* neither Optional nor a generic collection; the output of a hook for an
\* Optional type is still unwrapped (None stays None, anything else is
\* transformed against the non-null member) and the output of a hook for a
\* generic collection, when it is an instance of the origin collection, still
\* has each key and element transformed against the key and element types.
C9_ExactHookPreventsCastOnly ==
  ExactHooked =>
    IF ~HookOutput.ok THEN transformed_value = HookOutput
    ELSE IF is_optional(FieldType) THEN
      IF HookOutput.v = None THEN transformed_value = Ok(None)
      ELSE transformed_value =
             transform_value(config.type_hooks, config.cast, extract_optional(FieldType), HookOutput.v)
    ELSE IF is_generic_collection(FieldType)
            /\ isinstance(HookOutput.v, extract_origin_collection(FieldType)) THEN
      IF HookOutput.v.cls = Cls("dict") THEN
        LET ks == EachKey(FieldType.args[1], HookOutput.v)
            vs == EachItem(FieldType.args[2], HookOutput.v)
        IN (AllOk(ks) /\ AllOk(vs) /\ \A i \in 1..Len(ks) : IsHashable(ks[i].v)) =>
             transformed_value = Ok(DictOf(Vals(ks), Vals(vs)))
      ELSE transformed_value = Collect(HookOutput.v.cls, EachItem(FieldType.args[1], HookOutput.v))
    ELSE transformed_value = HookOutput

\* the hook for List[int] returned a list, the cast list names list, and the
\* hook for int then turned the elements of the hook's output into numbers
C9_Witness ==
  /\ ExactHooked /\ CastListed
  /\ FieldType = List(int)
  /\ HookOutput = Ok(ListV(<<StrV("1")>>))
  /\ transformed_value = Ok(ListV(<<IntV("1")>>))

====
